---- MODULE Spec2Model ----
(***************************************************************************)
(* Map feature editor: the drawing hook (src/hooks/useDrawing.ts), the     *)
(* zustand store (store/mapStore.ts), the polygon utilities                *)
(* (utils/polygonUtils.ts) and the export (utils/geojsonExport.ts).        *)
(*                                                                         *)
(* Geometry.  The map is a strip of unit cells, one row high: cell i is    *)
(* the square [i,i+1] x [0,1].  Pointer positions are lattice points of    *)
(* the strip.  A GeoJSON position is <<lng, lat>>, a ring a sequence of *)
(* positions.  The Turf calls are modelled at the resolution of the cells: *)
(* a polygon covers the cells whose centre lies strictly inside its ring   *)
(* (even-odd rule), its area is the number of those cells, intersection    *)
(* and difference work on the covered cells, and containment is Turf's     *)
(* vertex test (every vertex of the inner ring lies in the outer polygon,  *)
(* boundary included).                                                     *)
(***************************************************************************)
EXTENDS Integers, Sequences, FiniteSets, TLC

\* ------------------------------------------------------------------ bounds
\* Largest longitude of the strip: cells 0 .. MaxLng-1, lattice 0 .. MaxLng.
MaxLng == 4
\* Longest point list a polygon / line string session may accumulate.
MaxPoints == 3
\* Most features the collection may hold in the model.
MaxFeatures == 2
\* Most layers the drawing layer group may hold in the model.
MaxLayers == 2
\* Largest value a capacity limit is changed to.
MaxLimit == 1
\* Longest list of existing geometries in a direct call of trimPolygonOverlap
\* and most features of a store a shape is finished over.
MaxExisting == 2

\* ------------------------------------------------------------- basic types
FeatureTypes == {"polygon", "rectangle", "circle", "linestring"}

Lngs == 0 .. MaxLng
Lats == {0, 1}
\* L.LatLng values the pointer reports: two opposite corners of the strip.
LatLngs == {[lat |-> 0, lng |-> 0], [lat |-> 1, lng |-> MaxLng]}

Null == [type |-> "null"]

Min(a, b) == IF a <= b THEN a ELSE b
Max(a, b) == IF a >= b THEN a ELSE b
\* Variant of toCoord: latitude first.
toCoord_latFirst(ll) == <<ll.lat, ll.lng>>

\* ll => [ll.lng, ll.lat]
toCoord(ll) == <<ll.lng, ll.lat>>

PolygonGeom(ring) == [type |-> "Polygon", coordinates |-> <<ring>>]
LineStringGeom(path) == [type |-> "LineString", coordinates |-> path]

\* ---------------------------------------------------- exceptions as values
Ok(v) == [threw |-> FALSE, value |-> v]
Thrown == [threw |-> TRUE]

\* Library calls that an injected fault can make throw.
FaultSites == {"none", "intersect", "booleanContains", "difference", "area"}

\* ------------------------------------------------------ planar primitives
\* Is p on the closed segment a-b ?
OnSegment(p, a, b) ==
    /\ (b[1] - a[1]) * (p[2] - a[2]) = (b[2] - a[2]) * (p[1] - a[1])
    /\ Min(a[1], b[1]) <= p[1] /\ p[1] <= Max(a[1], b[1])
    /\ Min(a[2], b[2]) <= p[2] /\ p[2] <= Max(a[2], b[2])

\* Does the horizontal ray from p towards +x cross the edge a-b ?
Crosses(p, a, b) ==
    /\ (a[2] > p[2]) # (b[2] > p[2])
    /\ IF b[2] > a[2]
         THEN (p[1] - a[1]) * (b[2] - a[2]) < (p[2] - a[2]) * (b[1] - a[1])
         ELSE (p[1] - a[1]) * (b[2] - a[2]) > (p[2] - a[2]) * (b[1] - a[1])

Edges(ring) == 1 .. (Len(ring) - 1)

OnBoundary(p, ring) ==
    \E i \in Edges(ring) : OnSegment(p, ring[i], ring[i + 1])

InInterior(p, ring) ==
    /\ ~OnBoundary(p, ring)
    /\ Cardinality({i \in Edges(ring) : Crosses(p, ring[i], ring[i + 1])}) % 2 = 1

\* turf.booleanPointInPolygon(pt, polygon), boundary included.
booleanPointInPolygon(p, ring) == OnBoundary(p, ring) \/ InInterior(p, ring)

Double(ring) == [i \in 1 .. Len(ring) |-> <<2 * ring[i][1], 2 * ring[i][2]>>]

\* The cells a ring covers: those whose centre (i + 1/2, 1/2) is strictly
\* inside it.  Coordinates are doubled to stay in the integers.
Cells(ring) == {i \in 0 .. (MaxLng - 1) : InInterior(<<2 * i + 1, 1>>, Double(ring))}

\* The 5-point ring of the cells lo .. hi of the strip.
CellRing(lo, hi) ==
    <<<<lo, 0>>, <<hi + 1, 0>>, <<hi + 1, 1>>, <<lo, 1>>, <<lo, 0>>>>

\* The maximal runs of consecutive cells of a set, left to right.
RunStarts(S) == {i \in S : (i - 1) \notin S}
RunEnd(S, lo) == CHOOSE hi \in S : /\ hi >= lo
                                   /\ \A k \in lo .. hi : k \in S
                                   /\ (hi + 1) \notin S
RECURSIVE SortedSeq(_)
SortedSeq(S) ==
    IF S = {} THEN <<>>
    ELSE LET m == CHOOSE x \in S : \A y \in S : x <= y
         IN  <<m>> \o SortedSeq(S \ {m})
Runs(S) == LET st == SortedSeq(RunStarts(S))
           IN  [k \in 1 .. Len(st) |-> CellRing(st[k], RunEnd(S, st[k]))]

\* --------------------------------------------------------- Turf, modelled
\* turf.polygon(coordinates): throws on a ring of fewer than 4 positions or
\* whose first and last positions differ.
turf_polygon(coordinates) ==
    IF \E k \in 1 .. Len(coordinates) :
          \/ Len(coordinates[k]) < 4
          \/ coordinates[k][1] # coordinates[k][Len(coordinates[k])]
    THEN Thrown
    ELSE Ok(PolygonGeom(coordinates[1]))

RingOf(poly) == poly.coordinates[1]

\* turf.intersect(a, b): the common area, null when there is none.
turf_intersect(a, b, fault) ==
    IF fault = "intersect" THEN Thrown
    ELSE LET common == Cells(RingOf(a)) \cap Cells(RingOf(b))
         IN  IF common = {} THEN Ok(Null)
             ELSE Ok([type |-> "Intersection", cells |-> common])

\* turf.booleanContains(a, b) for two polygons.
turf_booleanContains(a, b, fault) ==
    IF fault = "booleanContains" THEN Thrown
    ELSE Ok(\A k \in 1 .. Len(RingOf(b)) : booleanPointInPolygon(RingOf(b)[k], RingOf(a)))
\* Variant of turf_difference: nothing is taken away from a.
turf_difference_nothing(a, b, fault) ==
    IF fault = "difference" THEN Thrown
    ELSE Ok(PolygonGeom(RingOf(a)))

\* turf.difference(a, b): null, a Polygon or a MultiPolygon.
turf_difference(a, b, fault) ==
    IF fault = "difference" THEN Thrown
    ELSE LET rest  == Cells(RingOf(a)) \ Cells(RingOf(b))
             parts == Runs(rest)
         IN  IF Len(parts) = 0 THEN Ok(Null)
             ELSE IF Len(parts) = 1 THEN Ok(PolygonGeom(parts[1]))
             ELSE Ok([type |-> "MultiPolygon",
                      coordinates |-> [k \in 1 .. Len(parts) |-> <<parts[k]>>]])

\* turf.area(polygon) in units of 0.0001: a cell has area 1 = 10000 units.
turf_area(poly, fault) ==
    IF fault = "area" THEN Thrown
    ELSE Ok(Cardinality(Cells(RingOf(poly))) * 10000)

\* ------------------------------------------------ utils/polygonUtils.ts
isPolygonType(type) == type \in {"polygon", "rectangle", "circle"}
\* Variant of geometryToPolygon: the ring of the polygon is rewound.
geometryToPolygon_rewound(geometry) ==
    IF geometry.type = "Polygon"
      THEN LET made == turf_polygon(geometry.coordinates)
           IN  IF made.threw THEN Thrown
               ELSE LET ring == RingOf(made.value)
                    IN  Ok(PolygonGeom([k \in 1 .. Len(ring) |-> ring[Len(ring) + 1 - k]]))
    ELSE Ok(Null)

\* Not inside any try block of its callers: a throw of turf.polygon leaves
\* the caller as an exception.
geometryToPolygon(geometry) ==
    IF geometry.type = "Polygon" THEN turf_polygon(geometry.coordinates)
    ELSE Ok(Null)

doPolygonsOverlap(geom1, geom2, fault) ==
    LET poly1 == geometryToPolygon(geom1)
        poly2 == geometryToPolygon(geom2)
    IN  IF poly1.threw \/ poly2.threw THEN Thrown
        ELSE IF poly1.value = Null \/ poly2.value = Null THEN Ok(FALSE)
        ELSE LET r == turf_intersect(poly1.value, poly2.value, fault)
             IN  IF r.threw THEN Ok(FALSE)            \* catch
                 ELSE Ok(r.value # Null)

doesPolygonEnclose(geom1, geom2, fault) ==
    LET poly1 == geometryToPolygon(geom1)
        poly2 == geometryToPolygon(geom2)
    IN  IF poly1.threw \/ poly2.threw THEN Thrown
        ELSE IF poly1.value = Null \/ poly2.value = Null THEN Ok(FALSE)
        ELSE LET r == turf_booleanContains(poly1.value, poly2.value, fault)
             IN  IF r.threw THEN Ok(FALSE)            \* catch
                 ELSE Ok(r.value)
\* Variant of reduceLargest: the first part is kept whatever the areas.
reduceLargest_first(max, polygons, k, fault) == Ok(max)

\* polygons.reduce((max, poly) => area(poly) > area(max) ? poly : max)
RECURSIVE reduceLargest(_, _, _, _)
reduceLargest(max, polygons, k, fault) ==
    IF k > Len(polygons) THEN Ok(max)
    ELSE LET maxArea  == turf_area(max, fault)
             polyArea == turf_area(polygons[k], fault)
         IN  IF maxArea.threw \/ polyArea.threw THEN Thrown
             ELSE reduceLargest(IF polyArea.value > maxArea.value
                                  THEN polygons[k] ELSE max,
                                polygons, k + 1, fault)

\* The for loop of trimPolygonOverlap from the k-th existing geometry on.
\* Ok(p): the loop ended with currentPoly = p; Ok(Null): return null inside
\* the loop; Thrown: an exception inside the try block.
RECURSIVE trimLoop(_, _, _, _)
trimLoop(currentPoly, existingGeometries, k, fault) ==
    IF k > Len(existingGeometries) THEN Ok(currentPoly)
    ELSE
    LET existingPoly == geometryToPolygon(existingGeometries[k])
    IN  IF existingPoly.threw THEN Thrown
        ELSE IF existingPoly.value = Null
          THEN trimLoop(currentPoly, existingGeometries, k + 1, fault)
        ELSE
        LET intersection == turf_intersect(currentPoly, existingPoly.value, fault)
        IN  IF intersection.threw THEN Thrown
            ELSE IF intersection.value = Null
              THEN trimLoop(currentPoly, existingGeometries, k + 1, fault)
            ELSE
            LET difference == turf_difference(currentPoly, existingPoly.value, fault)
            IN  IF difference.threw THEN Thrown
                ELSE IF difference.value.type = "Polygon"
                  THEN trimLoop(difference.value, existingGeometries, k + 1, fault)
                ELSE IF difference.value.type = "MultiPolygon"
                  THEN LET coords   == difference.value.coordinates
                           made     == [j \in 1 .. Len(coords) |-> turf_polygon(coords[j])]
                       IN  IF \E j \in 1 .. Len(coords) : made[j].threw THEN Thrown
                           ELSE
                           LET polygons == [j \in 1 .. Len(coords) |-> made[j].value]
                               largest  == reduceLargest(polygons[1], polygons, 2, fault)
                           IN  IF largest.threw THEN Thrown
                               ELSE trimLoop(largest.value, existingGeometries, k + 1, fault)
                ELSE Ok(Null)

\* The area floor of trimPolygonOverlap, 0.0001, in units of 0.0001.
MinArea == 1

\* Variant of trimPolygonOverlap: the area floor is not applied.
trimPolygonOverlap_noFloor(newGeometry, existingGeometries, fault) ==
    LET first == geometryToPolygon(newGeometry)
    IN  IF first.threw THEN Thrown
        ELSE IF first.value = Null THEN Ok(Null)
        ELSE
        LET loop == trimLoop(first.value, existingGeometries, 1, fault)
        IN  IF loop.threw THEN Ok(Null)
            ELSE IF loop.value = Null THEN Ok(Null)
            ELSE Ok(loop.value)
\* Variant of trimPolygonOverlap: when the loop ends on an empty
\* difference the candidate is given back as it was.
trimPolygonOverlap_keep(newGeometry, existingGeometries, fault) ==
    LET first == geometryToPolygon(newGeometry)
    IN  IF first.threw THEN Thrown
        ELSE IF first.value = Null THEN Ok(Null)
        ELSE
        LET loop == trimLoop(first.value, existingGeometries, 1, fault)
        IN  IF loop.threw THEN Ok(Null)
            ELSE IF loop.value = Null THEN Ok(newGeometry)
            ELSE LET area == turf_area(loop.value, fault)
                 IN  IF area.threw THEN Ok(Null)
                     ELSE IF area.value < MinArea THEN Ok(Null)
                     ELSE Ok(loop.value)

trimPolygonOverlap(newGeometry, existingGeometries, fault) ==
    LET first == geometryToPolygon(newGeometry)
    IN  IF first.threw THEN Thrown                    \* before the try
        ELSE IF first.value = Null THEN Ok(Null)
        ELSE
        LET loop == trimLoop(first.value, existingGeometries, 1, fault)
        IN  IF loop.threw THEN Ok(Null)               \* catch
            ELSE IF loop.value = Null THEN Ok(Null)
            ELSE LET area == turf_area(loop.value, fault)
                 IN  IF area.threw THEN Ok(Null)      \* catch
                     ELSE IF area.value < MinArea THEN Ok(Null)
                     ELSE Ok(loop.value)

getFeatureColor(type) ==
    CASE type = "polygon"    -> "#3b82f6"
      [] type = "rectangle"  -> "#10b981"
      [] type = "circle"     -> "#f59e0b"
      [] type = "linestring" -> "#ef4444"
      [] OTHER               -> "#6b7280"

generateFeatureId(fs) ==
    CHOOSE n \in 1 .. (Len(fs) + 1) :
        /\ \A k \in 1 .. Len(fs) : fs[k].id # n
        /\ \A m \in 1 .. (n - 1) : \E k \in 1 .. Len(fs) : fs[k].id = m
\* ------------------------------------------------- utils/geojsonExport.ts
\* The members of feature.properties in the order the object literal of
\* finishDrawing gives them; an absent member is not written.
propertyMembers(properties) ==
    (IF "name" \in DOMAIN properties THEN <<<<"name", properties.name>>>> ELSE <<>>)
    \o (IF "color" \in DOMAIN properties THEN <<<<"color", properties.color>>>> ELSE <<>>)

\* { id, type, ...feature.properties } as the list of members JSON.stringify
\* writes, in insertion order.
exportProperties(feature) ==
    <<<<"id", feature.id>>, <<"type", feature.type>>>> \o propertyMembers(feature.properties)

\* Variant of exportToGeoJSON: the properties of the feature are written as
\* they are, without id and type.
exportToGeoJSON_bare(fs) ==
    [type |-> "FeatureCollection",
     features |-> [k \in 1 .. Len(fs) |->
                     [type |-> "Feature", geometry |-> fs[k].geometry,
                      properties |-> propertyMembers(fs[k].properties)]]]

\* exportToGeoJSON(features): the document that is stringified.
exportToGeoJSON(fs) ==
    [type |-> "FeatureCollection",
     features |-> [k \in 1 .. Len(fs) |->
                     [type |-> "Feature", geometry |-> fs[k].geometry,
                      properties |-> exportProperties(fs[k])]]]

\* --------------------------------------------------------- config/index.ts
MAX_SHAPES_CONFIG ==
    [polygon |-> 10, rectangle |-> 5, circle |-> 5, linestring |-> 20]

\* ------------------------------------------------------------------ state
VARIABLES
    features,       \* store: the committed feature collection
    mode,           \* store: drawingState.mode ("null" when none)
    isDrawing,      \* store: drawingState.isDrawing
    maxShapes,      \* store: capacity limit per feature type
    drawingLayer,   \* hook: ids of the layers in the drawing layer group
    currentShape,   \* hook: currentShapeRef.current
    startPoint,     \* hook: startPointRef.current
    polygonPoints,  \* hook: polygonPointsRef.current
    alert,          \* the alert() raised by the last handler, "none" if none
    probe           \* the last direct call of a polygon utility, with result

storeVars == <<features, mode, isDrawing, maxShapes>>
hookVars == <<drawingLayer, currentShape, startPoint, polygonPoints>>
vars == <<features, mode, isDrawing, maxShapes, drawingLayer, currentShape,
          startPoint, polygonPoints, alert, probe>>

NoMode == "null"
NoShape == [kind |-> "null"]
NoProbe == [op |-> "none"]

\* layer instanceof L.<cls>: Rectangle extends Polygon extends Polyline.
instanceOf(layer, cls) ==
    CASE cls = "Circle"    -> layer.kind = "Circle"
      [] cls = "Rectangle" -> layer.kind = "Rectangle"
      [] cls = "Polygon"   -> layer.kind \in {"Polygon", "Rectangle"}
      [] cls = "Polyline"  -> layer.kind \in {"Polyline", "Polygon", "Rectangle"}

\* features.filter((f) => f.type === type).length
CountOfType(fs, type) == Len(SelectSeq(fs, LAMBDA f : f.type = type))
\* Variant of CountPolygonType: only the features of type polygon count.
CountPolygonType_own(fs) == Len(SelectSeq(fs, LAMBDA f : f.type = "polygon"))

\* features.filter((f) => isPolygonType(f.type)).length
CountPolygonType(fs) == Len(SelectSeq(fs, LAMBDA f : isPolygonType(f.type)))

\* Variant of limitReached: the limit itself is still allowed.
limitReached_strict(count, max) == count > max

\* Variant of limitReached: the capacity test never refuses.
limitReached_off(count, max) == FALSE

\* The capacity test of the four click handlers: count >= max.
limitReached(count, max) == count >= max

\* A layer id that is not in the group.
newLayerId == CHOOSE n \in 1 .. MaxLayers : n \notin drawingLayer

\* Model bounds on a new session: room for one more layer and one more
\* feature.
RoomToStart ==
    /\ Cardinality(drawingLayer) < MaxLayers
    /\ Len(features) < MaxFeatures

Init ==
    /\ features = <<>>
    /\ mode = NoMode
    /\ isDrawing = FALSE
    /\ maxShapes = MAX_SHAPES_CONFIG
    /\ drawingLayer = {}
    /\ currentShape = NoShape
    /\ startPoint = Null
    /\ polygonPoints = <<>>
    /\ alert = "none"
    /\ probe = NoProbe
\* Variant of setMaxShapes: the new limit is given to every type.
setMaxShapes_all(type, max) ==
    /\ maxShapes' = [t \in FeatureTypes |-> max]
    /\ alert' = "none"
    /\ UNCHANGED <<features, mode, isDrawing, hookVars, probe>>

\* ------------------------------------------------------- store/mapStore.ts
setMaxShapes(type, max) ==
    /\ maxShapes' = [maxShapes EXCEPT ![type] = max]
    /\ alert' = "none"
    /\ UNCHANGED <<features, mode, isDrawing, hookVars, probe>>

removeFeature(id) ==
    /\ features' = SelectSeq(features, LAMBDA f : f.id # id)
    /\ alert' = "none"
    /\ UNCHANGED <<mode, isDrawing, maxShapes, hookVars, probe>>
\* Variant of modeEffect: the accumulated points survive the mode change.
modeEffect_keepPoints ==
    /\ drawingLayer' = IF currentShape # NoShape
                         THEN drawingLayer \ {currentShape.id}
                         ELSE drawingLayer
    /\ currentShape' = NoShape
    /\ startPoint' = Null
    /\ polygonPoints' = polygonPoints
    /\ isDrawing' = FALSE

\* The clean-up the main drawing effect runs when drawingState.mode changed.
modeEffect ==
    /\ drawingLayer' = IF currentShape # NoShape
                         THEN drawingLayer \ {currentShape.id}
                         ELSE drawingLayer
    /\ currentShape' = NoShape
    /\ startPoint' = Null
    /\ polygonPoints' = <<>>
    /\ isDrawing' = FALSE

\* DrawingToolbar.handleToolClick: the button of a type whose own count has
\* reached its limit is disabled; a click on the selected tool deselects.
handleToolClick(type) ==
    /\ ~(CountOfType(features, type) >= maxShapes[type])
    /\ mode' = IF mode = type THEN NoMode ELSE type
    /\ modeEffect
    /\ alert' = "none"
    /\ UNCHANGED <<features, maxShapes, probe>>

clearAllFeatures ==
    /\ features # <<>> \/ mode # NoMode
    /\ features' = <<>>
    /\ mode' = NoMode
    /\ IF mode # NoMode THEN modeEffect
       ELSE /\ isDrawing' = FALSE
            /\ UNCHANGED hookVars
    /\ alert' = "none"
    /\ UNCHANGED <<maxShapes, probe>>

\* ------------------------------------------------------ Leaflet, modelled
isqrt(n) == CHOOSE r \in 0 .. n : r * r <= n /\ (r + 1) * (r + 1) > n

\* a.distanceTo(b), in lattice units, rounded down.
distanceTo(a, b) ==
    isqrt((a.lng - b.lng) * (a.lng - b.lng) + (a.lat - b.lat) * (a.lat - b.lat))

\* L.latLngBounds(a, b)
latLngBounds(a, b) ==
    [south |-> Min(a.lat, b.lat), west |-> Min(a.lng, b.lng),
     north |-> Max(a.lat, b.lat), east |-> Max(a.lng, b.lng)]

\* turf.circle(center, radius, {steps}).geometry with 4 steps instead of 64,
\* which keeps the vertices on the lattice: bearings 0, -90, -180, -270.
turf_circle(center, radius) ==
    PolygonGeom(<<<<center[1], center[2] + radius>>,
                  <<center[1] - radius, center[2]>>,
                  <<center[1], center[2] - radius>>,
                  <<center[1] + radius, center[2]>>,
                  <<center[1], center[2] + radius>>>>)

\* ----------------------------------------------------- hooks/useDrawing.ts
AlertMaxCircles == "Maximum circles allowed"
AlertMaxRectangles == "Maximum rectangles allowed"
AlertMaxPolygons == "Maximum polygons allowed"
AlertMaxLineStrings == "Maximum line strings allowed"
AlertPolygonPoints == "Polygon needs at least 3 points"
AlertLinePoints == "Line string needs at least 2 points"
AlertEnclosed == "Cannot draw: This polygon would be fully enclosed by an existing polygon"
AlertEncloses == "Cannot draw: This polygon would fully enclose an existing polygon"
AlertTrim == "Cannot draw: Overlap trimming resulted in invalid geometry"

\* finishDrawing, lines 297-345: the geometry of the finished layer, or the
\* alert that ends the call.
layerGeometry(layer, pts) ==
    IF instanceOf(layer, "Circle")
      THEN [alert |-> "none",
            geometry |-> turf_circle(<<layer.latlng.lng, layer.latlng.lat>>, layer.radius)]
    ELSE IF instanceOf(layer, "Rectangle")
      THEN LET b == layer.bounds
           IN  [alert |-> "none",
                geometry |-> PolygonGeom(<<<<b.west, b.south>>, <<b.east, b.south>>,
                                           <<b.east, b.north>>, <<b.west, b.north>>,
                                           <<b.west, b.south>>>>)]
    ELSE IF instanceOf(layer, "Polygon")
      THEN IF Len(pts) < 3 THEN [alert |-> AlertPolygonPoints, geometry |-> Null]
           ELSE LET coords == [k \in 1 .. Len(pts) |-> toCoord(pts[k])]
                IN  [alert |-> "none", geometry |-> PolygonGeom(Append(coords, coords[1]))]
    ELSE IF instanceOf(layer, "Polyline")
      THEN IF Len(pts) < 2 THEN [alert |-> AlertLinePoints, geometry |-> Null]
           ELSE [alert |-> "none",
                 geometry |-> LineStringGeom([k \in 1 .. Len(pts) |-> toCoord(pts[k])])]
    ELSE [alert |-> "none", geometry |-> Null]

\* Variant of existingPolygonGeometries: the filter on the type is missing.
existingPolygonGeometries_all(fs) == [k \in 1 .. Len(fs) |-> fs[k].geometry]

\* currentFeatures.filter((f) => isPolygonType(f.type)).map((f) => f.geometry)
existingPolygonGeometries(fs) ==
    LET sel == SelectSeq(fs, LAMBDA f : isPolygonType(f.type))
    IN  [k \in 1 .. Len(sel) |-> sel[k].geometry]

\* Variant of enclosureLoop: only the "would be enclosed" direction is tested.
RECURSIVE enclosureLoop_oneWay(_, _, _)
enclosureLoop_oneWay(geometry, existing, k) ==
    IF k > Len(existing) THEN "none"
    ELSE LET inside == doesPolygonEnclose(existing[k], geometry, "none")
         IN  IF inside.threw THEN "exception"
             ELSE IF inside.value THEN AlertEnclosed
             ELSE enclosureLoop_oneWay(geometry, existing, k + 1)

\* The enclosure loop, lines 356-365, from the k-th existing geometry on:
\* the alert of the first rejection, "none" when there is none, "exception"
\* when a predicate throws.
RECURSIVE enclosureLoop(_, _, _)
enclosureLoop(geometry, existing, k) ==
    IF k > Len(existing) THEN "none"
    ELSE LET inside == doesPolygonEnclose(existing[k], geometry, "none")
         IN  IF inside.threw THEN "exception"
             ELSE IF inside.value THEN AlertEnclosed
             ELSE LET around == doesPolygonEnclose(geometry, existing[k], "none")
                  IN  IF around.threw THEN "exception"
                      ELSE IF around.value THEN AlertEncloses
                      ELSE enclosureLoop(geometry, existing, k + 1)

\* Variant of overlapLoop: no overlap is ever found.
overlapLoop_blind(geometry, existing, k) == Ok(FALSE)

\* The overlap loop, lines 368-374.
RECURSIVE overlapLoop(_, _, _)
overlapLoop(geometry, existing, k) ==
    IF k > Len(existing) THEN Ok(FALSE)
    ELSE LET o == doPolygonsOverlap(geometry, existing[k], "none")
         IN  IF o.threw THEN Thrown
             ELSE IF o.value THEN Ok(TRUE)
             ELSE overlapLoop(geometry, existing, k + 1)

\* Lines 376-383: what the result of trimPolygonOverlap leads to.
trimOutcome(trimmedGeometry) ==
    IF trimmedGeometry.threw THEN [outcome |-> "exception", alert |-> "none"]
    ELSE IF trimmedGeometry.value = Null
      THEN [outcome |-> "return", alert |-> AlertTrim]
    ELSE [outcome |-> "commit", alert |-> "none", geometry |-> trimmedGeometry.value]

\* Lines 367-384: the overlap loop and, on an overlap, the trim.
overlapOutcome(geometry, existing, hasOverlap) ==
    IF hasOverlap.threw THEN [outcome |-> "exception", alert |-> "none"]
    ELSE IF ~hasOverlap.value
      THEN [outcome |-> "commit", alert |-> "none", geometry |-> geometry]
    ELSE trimOutcome(trimPolygonOverlap(geometry, existing, "none"))

\* Variant of enclosureOutcome: a rejection by the enclosure loop is not
\* acted on.
enclosureOutcome_ignored(geometry, existing, enc) ==
    IF enc = "exception" THEN [outcome |-> "exception", alert |-> "none"]
    ELSE overlapOutcome(geometry, existing, overlapLoop(geometry, existing, 1))

\* Lines 355-384: the enclosure loop, then the overlap handling.
enclosureOutcome(geometry, existing, enc) ==
    IF enc = "exception" THEN [outcome |-> "exception", alert |-> "none"]
    ELSE IF enc # "none" THEN [outcome |-> "return", alert |-> enc]
    ELSE overlapOutcome(geometry, existing, overlapLoop(geometry, existing, 1))
\* Variant of geometryOutcome: an overlap is looked for, and trimmed away,
\* before the enclosure loop runs.
geometryOutcome_overlapFirst(type, g, existing) ==
    IF g.geometry = Null THEN [outcome |-> "return", alert |-> g.alert]
    ELSE IF ~isPolygonType(type)
      THEN [outcome |-> "commit", alert |-> "none", geometry |-> g.geometry]
    ELSE IF overlapLoop(g.geometry, existing, 1) = Ok(TRUE)
      THEN trimOutcome(trimPolygonOverlap(g.geometry, existing, "none"))
    ELSE enclosureOutcome(g.geometry, existing, enclosureLoop(g.geometry, existing, 1))

\* Lines 347-384 for the geometry g built from the layer.
geometryOutcome(type, g, existing) ==
    IF g.geometry = Null THEN [outcome |-> "return", alert |-> g.alert]
    ELSE IF ~isPolygonType(type)
      THEN [outcome |-> "commit", alert |-> "none", geometry |-> g.geometry]
    ELSE enclosureOutcome(g.geometry, existing, enclosureLoop(g.geometry, existing, 1))

\* What finishDrawing(type, layer) decides: "return" (an early return),
\* "commit" with the geometry to store, or "exception".
finishOutcome(type, layer, fs, pts) ==
    geometryOutcome(type, layerGeometry(layer, pts), existingPolygonGeometries(fs))

newFeature(type, geometry, fs) ==
    [id |-> generateFeatureId(fs), type |-> type, geometry |-> geometry,
     properties |-> [color |-> getFeatureColor(type)]]
\* Variant of addFeature: the feature is put in front of the collection.
addFeature_front(feature) == features' = <<feature>> \o features

\* addFeature(feature)
addFeature(feature) == features' = Append(features, feature)

\* finishDrawing(type, layer), o being what it decides: on a commit the
\* feature is added, the layer is removed and the shape and point refs are
\* cleared; every early return leaves the refs and the layer as they are.
finishDrawing(type, layer, o) ==
    /\ alert' = o.alert
    /\ IF o.outcome = "commit"
         THEN /\ addFeature(newFeature(type, o.geometry, features))
              /\ drawingLayer' = drawingLayer \ {layer.id}
              /\ currentShape' = NoShape
              /\ polygonPoints' = <<>>
         ELSE UNCHANGED <<features, drawingLayer, currentShape, polygonPoints>>
\* Variant of afterFinish: is-drawing is reset only when the shape was
\* committed.
afterFinish_onCommit(o) ==
    isDrawing' = IF o.outcome = "commit" THEN FALSE ELSE isDrawing
\* Variant of afterFinish: the caller never resets is-drawing.
afterFinish_never(o) == isDrawing' = isDrawing

\* The caller's setIsDrawing(false) after finishDrawing; an exception
\* leaves the handler before it.
afterFinish(o) ==
    isDrawing' = IF o.outcome = "exception" THEN isDrawing ELSE FALSE

\* finishDrawing(type, layer) followed by the caller's setIsDrawing(false).
finishAndIdle(type, layer) ==
    \E o \in {finishOutcome(type, layer, features, polygonPoints)} :
        /\ finishDrawing(type, layer, o)
        /\ afterFinish(o)

handleCircleClick(latlng) ==
    /\ mode = "circle"
    /\ IF isDrawing
         THEN /\ IF instanceOf(currentShape, "Circle")
                   THEN /\ finishAndIdle("circle", currentShape)
                   ELSE /\ isDrawing' = FALSE
                        /\ alert' = "none"
                        /\ UNCHANGED <<features, drawingLayer, currentShape, polygonPoints>>
              /\ UNCHANGED startPoint
         ELSE IF limitReached(CountOfType(features, "circle"), maxShapes.circle)
           THEN /\ alert' = AlertMaxCircles
                /\ UNCHANGED <<features, isDrawing, hookVars>>
           ELSE /\ RoomToStart
                /\ startPoint' = latlng
                /\ isDrawing' = TRUE
                /\ drawingLayer' = drawingLayer \cup {newLayerId}
                /\ currentShape' = [kind |-> "Circle", id |-> newLayerId,
                                    latlng |-> latlng, radius |-> 0]
                /\ alert' = "none"
                /\ UNCHANGED <<features, polygonPoints>>
    /\ UNCHANGED <<mode, maxShapes, probe>>

handleRectangleClick(latlng) ==
    /\ mode = "rectangle"
    /\ IF isDrawing
         THEN /\ IF instanceOf(currentShape, "Rectangle")
                   THEN /\ finishAndIdle("rectangle", currentShape)
                   ELSE /\ isDrawing' = FALSE
                        /\ alert' = "none"
                        /\ UNCHANGED <<features, drawingLayer, currentShape, polygonPoints>>
              /\ UNCHANGED startPoint
         ELSE IF limitReached(CountOfType(features, "rectangle"), maxShapes.rectangle)
           THEN /\ alert' = AlertMaxRectangles
                /\ UNCHANGED <<features, isDrawing, hookVars>>
           ELSE /\ RoomToStart
                /\ startPoint' = latlng
                /\ isDrawing' = TRUE
                /\ drawingLayer' = drawingLayer \cup {newLayerId}
                /\ currentShape' = [kind |-> "Rectangle", id |-> newLayerId,
                                    bounds |-> latLngBounds(latlng, latlng)]
                /\ alert' = "none"
                /\ UNCHANGED <<features, polygonPoints>>
    /\ UNCHANGED <<mode, maxShapes, probe>>

handlePolygonClick(latlng) ==
    /\ mode = "polygon"
    /\ IF ~isDrawing
         THEN IF limitReached(CountPolygonType(features), maxShapes.polygon)
           THEN /\ alert' = AlertMaxPolygons
                /\ UNCHANGED <<features, isDrawing, hookVars>>
           ELSE /\ RoomToStart
                /\ polygonPoints' = <<latlng>>
                /\ isDrawing' = TRUE
                /\ drawingLayer' = drawingLayer \cup {newLayerId}
                /\ currentShape' = [kind |-> "Polygon", id |-> newLayerId,
                                    latlngs |-> <<latlng>>]
                /\ alert' = "none"
                /\ UNCHANGED <<features, startPoint>>
         ELSE /\ Len(polygonPoints) < MaxPoints
              /\ polygonPoints' = Append(polygonPoints, latlng)
              /\ currentShape' = IF instanceOf(currentShape, "Polygon")
                                   THEN [currentShape EXCEPT !.latlngs = polygonPoints']
                                   ELSE currentShape
              /\ alert' = "none"
              /\ UNCHANGED <<features, isDrawing, drawingLayer, startPoint>>
    /\ UNCHANGED <<mode, maxShapes, probe>>

handleLineStringClick(latlng) ==
    /\ mode = "linestring"
    /\ IF ~isDrawing
         THEN IF limitReached(CountOfType(features, "linestring"), maxShapes.linestring)
           THEN /\ alert' = AlertMaxLineStrings
                /\ UNCHANGED <<features, isDrawing, hookVars>>
           ELSE /\ RoomToStart
                /\ polygonPoints' = <<latlng>>
                /\ isDrawing' = TRUE
                /\ drawingLayer' = drawingLayer \cup {newLayerId}
                /\ currentShape' = [kind |-> "Polyline", id |-> newLayerId,
                                    latlngs |-> <<latlng>>]
                /\ alert' = "none"
                /\ UNCHANGED <<features, startPoint>>
         ELSE /\ Len(polygonPoints) < MaxPoints
              /\ polygonPoints' = Append(polygonPoints, latlng)
              /\ currentShape' = IF instanceOf(currentShape, "Polyline")
                                   THEN [currentShape EXCEPT !.latlngs = polygonPoints']
                                   ELSE currentShape
              /\ alert' = "none"
              /\ UNCHANGED <<features, isDrawing, drawingLayer, startPoint>>
    /\ UNCHANGED <<mode, maxShapes, probe>>

\* Variant of handleMapDoubleClick: finishPolygonOrLineString does not test
\* the number of points itself and leaves that to finishDrawing.
handleMapDoubleClick_unchecked ==
    /\ mode \in {"polygon", "linestring"}
    /\ isDrawing
    /\ currentShape # NoShape
    /\ finishAndIdle(mode, currentShape)
    /\ UNCHANGED <<mode, maxShapes, startPoint, probe>>

\* handleMapDoubleClick -> finishPolygonOrLineString(currentMode)
handleMapDoubleClick ==
    /\ mode \in {"polygon", "linestring"}
    /\ isDrawing
    /\ currentShape # NoShape
    /\ IF mode = "polygon" /\ Len(polygonPoints) < 3
         THEN /\ alert' = AlertPolygonPoints
              /\ UNCHANGED <<features, isDrawing, drawingLayer, currentShape, polygonPoints>>
       ELSE IF mode = "linestring" /\ Len(polygonPoints) < 2
         THEN /\ alert' = AlertLinePoints
              /\ UNCHANGED <<features, isDrawing, drawingLayer, currentShape, polygonPoints>>
       ELSE /\ finishAndIdle(mode, currentShape)
    /\ UNCHANGED <<mode, maxShapes, startPoint, probe>>

handleMapMouseMove(latlng) ==
    /\ mode # NoMode
    /\ isDrawing
    /\ startPoint # Null
    /\ currentShape' =
         IF mode = "circle" /\ instanceOf(currentShape, "Circle")
           THEN [currentShape EXCEPT !.radius = distanceTo(startPoint, latlng)]
         ELSE IF mode = "rectangle" /\ instanceOf(currentShape, "Rectangle")
           THEN [currentShape EXCEPT !.bounds = latLngBounds(startPoint, latlng)]
         ELSE IF mode = "polygon" /\ instanceOf(currentShape, "Polygon")
           THEN [currentShape EXCEPT !.latlngs = Append(polygonPoints, latlng)]
         ELSE IF mode = "linestring" /\ instanceOf(currentShape, "Polyline")
           THEN [currentShape EXCEPT !.latlngs = Append(polygonPoints, latlng)]
         ELSE currentShape
    /\ alert' = "none"
    /\ UNCHANGED <<storeVars, drawingLayer, startPoint, polygonPoints, probe>>

Next ==
    \/ \E ll \in LatLngs : handleCircleClick(ll)
    \/ \E ll \in LatLngs : handleRectangleClick(ll)
    \/ \E ll \in LatLngs : handlePolygonClick(ll)
    \/ \E ll \in LatLngs : handleLineStringClick(ll)
    \/ handleMapDoubleClick
    \/ \E ll \in LatLngs : handleMapMouseMove(ll)
    \/ \E t \in FeatureTypes : handleToolClick(t)
    \/ \E t \in FeatureTypes, m \in 1 .. MaxLimit : setMaxShapes(t, m)
    \/ \E k \in 1 .. Len(features) : removeFeature(features[k].id)
    \/ clearAllFeatures

Spec == Init /\ [][Next]_vars
\* ------------------------------------- direct calls of the polygon utilities
\* Geometries handed to the utilities directly: the rectangles of the strip,
\* a zero-area ring, a ring of 3 positions, an unclosed ring, a line string.
ProbeGeoms ==
    {PolygonGeom(CellRing(c[1], c[2])) :
        c \in {d \in (0 .. (MaxLng - 1)) \X (0 .. (MaxLng - 1)) : d[1] <= d[2]}}
    \cup {PolygonGeom(<<<<0, 0>>, <<0, 0>>, <<0, 0>>, <<0, 0>>, <<0, 0>>>>),
          PolygonGeom(<<<<0, 0>>, <<MaxLng, 0>>, <<0, 0>>>>),
          PolygonGeom(<<<<0, 0>>, <<1, 0>>, <<1, 1>>, <<0, 1>>>>),
          LineStringGeom(<<<<0, 0>>, <<MaxLng, 1>>>>)}

ProbeLists == UNION {[1 .. n -> ProbeGeoms] : n \in 0 .. MaxExisting}

callOverlap(geom1, geom2, fault) ==
    /\ probe = NoProbe
    /\ probe' = [op |-> "doPolygonsOverlap", geom1 |-> geom1, geom2 |-> geom2,
                 fault |-> fault, result |-> doPolygonsOverlap(geom1, geom2, fault)]
    /\ UNCHANGED <<storeVars, hookVars, alert>>

callEnclose(geom1, geom2, fault) ==
    /\ probe = NoProbe
    /\ probe' = [op |-> "doesPolygonEnclose", geom1 |-> geom1, geom2 |-> geom2,
                 fault |-> fault, result |-> doesPolygonEnclose(geom1, geom2, fault)]
    /\ UNCHANGED <<storeVars, hookVars, alert>>

callTrim(newGeometry, existingGeometries, fault) ==
    /\ probe = NoProbe
    /\ probe' = [op |-> "trimPolygonOverlap", newGeometry |-> newGeometry,
                 existingGeometries |-> existingGeometries, fault |-> fault,
                 result |-> trimPolygonOverlap(newGeometry, existingGeometries, fault)]
    /\ UNCHANGED <<storeVars, hookVars, alert>>

\* The caller drops the result and is ready for the next call.
dropResult ==
    /\ probe # NoProbe
    /\ probe' = NoProbe
    /\ UNCHANGED <<storeVars, hookVars, alert>>

LibNext ==
    \/ \E g1 \in ProbeGeoms, g2 \in ProbeGeoms, f \in FaultSites : callOverlap(g1, g2, f)
    \/ \E g1 \in ProbeGeoms, g2 \in ProbeGeoms, f \in FaultSites : callEnclose(g1, g2, f)
    \/ \E g \in ProbeGeoms, ex \in ProbeLists, f \in FaultSites : callTrim(g, ex, f)
    \/ dropResult

LibSpec == Init /\ [][LibNext]_vars

\* -------------------------------------------------- the export of a store
AlertNoFeatures == "No features to export"

\* ExportButton.handleExport: the document handed to downloadFile is kept
\* in probe together with the collection it was made from.
handleExport ==
    /\ probe = NoProbe
    /\ IF Len(features) = 0
         THEN /\ alert' = AlertNoFeatures
              /\ UNCHANGED probe
         ELSE /\ probe' = [op |-> "exportToGeoJSON", features |-> features,
                           result |-> exportToGeoJSON(features)]
              /\ alert' = "none"
    /\ UNCHANGED <<storeVars, hookVars>>

\* Geometries of the features of a store that is exported.
ExportGeoms ==
    {PolygonGeom(CellRing(0, 0)), PolygonGeom(CellRing(1, MaxLng - 1)),
     LineStringGeom(<<<<0, 0>>, <<MaxLng, 1>>>>)}

\* The features with a given id a store may hold.
ExportFeatures(id) ==
    {[id |-> id, type |-> c[1], geometry |-> c[2],
      properties |-> [color |-> getFeatureColor(c[1])]] :
        c \in {d \in FeatureTypes \X ExportGeoms :
                 isPolygonType(d[1]) <=> d[2].type = "Polygon"}}

\* The stores that are exported: up to MaxFeatures features with the ids
\* generateFeatureId gives them.
ExportInit ==
    /\ \E n \in 0 .. MaxFeatures :
          features \in {fs \in [1 .. n -> UNION {ExportFeatures(i) : i \in 1 .. n}] :
                          \A k \in 1 .. n : fs[k].id = k}
    /\ mode = NoMode
    /\ isDrawing = FALSE
    /\ maxShapes = MAX_SHAPES_CONFIG
    /\ drawingLayer = {}
    /\ currentShape = NoShape
    /\ startPoint = Null
    /\ polygonPoints = <<>>
    /\ alert = "none"
    /\ probe = NoProbe

ExportNext ==
    \/ handleExport
    \/ dropResult
    \/ \E k \in 1 .. Len(features) : removeFeature(features[k].id)

ExportSpec == ExportInit /\ [][ExportNext]_vars

\* ------------------------------ a shape finished over a filled store
\* The rectangle layers over the strip, degenerate ones included.
RectangleLayers(id) ==
    {[kind |-> "Rectangle", id |-> id,
      bounds |-> [south |-> 0, west |-> c[1], north |-> 1, east |-> c[2]]] :
        c \in {d \in (0 .. MaxLng) \X (0 .. MaxLng) : d[1] <= d[2]}}

\* The circle layers centred on the lower edge of the strip, the one of
\* radius 0 included.
CircleLayers(id) ==
    {[kind |-> "Circle", id |-> id, latlng |-> [lat |-> 0, lng |-> c[1]],
      radius |-> c[2]] : c \in (0 .. MaxLng) \X (0 .. MaxLng)}

\* The store after finishDrawing('rectangle', layer) on the store fs.
storeAfterFinish(fs, layer, o) ==
    IF o.outcome = "commit"
      THEN Append(fs, newFeature("rectangle", o.geometry, fs))
      ELSE fs

\* The store after the rectangles layers[1 .. k] were drawn one after the
\* other into an empty store.
RECURSIVE drawnStore(_, _)
drawnStore(layers, k) ==
    IF k = 0 THEN <<>>
    ELSE LET fs == drawnStore(layers, k - 1)
         IN  storeAfterFinish(fs, layers[k],
                              finishOutcome("rectangle", layers[k], fs, <<>>))

\* A rectangle or circle session is active over a store that up to
\* MaxExisting earlier rectangle sessions have filled.
PipelineInit ==
    /\ \E n \in 0 .. MaxExisting :
          features \in {drawnStore(ls, n) : ls \in [1 .. n -> RectangleLayers(1)]}
    /\ currentShape \in RectangleLayers(1) \cup CircleLayers(1)
    /\ mode = IF currentShape.kind = "Circle" THEN "circle" ELSE "rectangle"
    /\ isDrawing = TRUE
    /\ maxShapes = MAX_SHAPES_CONFIG
    /\ drawingLayer = {1}
    /\ startPoint = IF currentShape.kind = "Circle" THEN currentShape.latlng
                    ELSE [lat |-> currentShape.bounds.south,
                          lng |-> currentShape.bounds.west]
    /\ polygonPoints = <<>>
    /\ alert = "none"
    /\ probe = NoProbe

PipelineNext ==
    \/ \E ll \in LatLngs : handleRectangleClick(ll)
    \/ \E ll \in LatLngs : handleCircleClick(ll)
    \/ \E ll \in LatLngs : handleMapMouseMove(ll)

PipelineSpec == PipelineInit /\ [][PipelineNext]_vars

\* =================================================================== claims
\* Indices of the committed polygon-type features.
PolyIdx == {k \in 1 .. Len(features) : isPolygonType(features[k].type)}

\* The geometry finishDrawing builds from the current provisional shape.
Candidate == layerGeometry(currentShape, polygonPoints).geometry

RejectAlerts == {AlertEnclosed, AlertEncloses, AlertTrim}
MaxAlerts == {AlertMaxCircles, AlertMaxRectangles, AlertMaxPolygons, AlertMaxLineStrings}

MaxAlertOf(type) ==
    CASE type = "circle"     -> AlertMaxCircles
      [] type = "rectangle"  -> AlertMaxRectangles
      [] type = "polygon"    -> AlertMaxPolygons
      [] type = "linestring" -> AlertMaxLineStrings

\* A click on the map in the selected mode.
ClickStep ==
    \E ll \in LatLngs : \/ handleCircleClick(ll)
                        \/ handleRectangleClick(ll)
                        \/ handlePolygonClick(ll)
                        \/ handleLineStringClick(ll)

\* A step that finalizes a polygon-type candidate: the second click of a
\* circle or rectangle, the double click of a polygon with 3 points or more.
FinalizeStep ==
    /\ isDrawing
    /\ currentShape # NoShape
    /\ \/ mode \in {"circle", "rectangle"} /\ ClickStep
       \/ mode = "polygon" /\ Len(polygonPoints) >= 3 /\ handleMapDoubleClick

EnclosedBy(k) == doesPolygonEnclose(features[k].geometry, Candidate, "none") = Ok(TRUE)
Encloses(k) == doesPolygonEnclose(Candidate, features[k].geometry, "none") = Ok(TRUE)

\* ----------------------------------------------------------------------- C1
\* C1: in every reachable state no two committed features of type polygon,
\* rectangle or circle have geometries for which doPolygonsOverlap is true.
C1_NoOverlap ==
    \A i \in PolyIdx, j \in PolyIdx :
        i # j => doPolygonsOverlap(features[i].geometry, features[j].geometry, "none")
                   = Ok(FALSE)

\* Two polygon-type features with area are committed, the later one a circle
\* that was trimmed to a run of cells.
C1_Witness ==
    \E i \in PolyIdx, j \in PolyIdx :
        /\ i < j
        /\ Cells(RingOf(features[i].geometry)) # {}
        /\ Cells(RingOf(features[j].geometry)) # {}
        /\ features[j].type = "circle"
        /\ \E lo \in 0 .. (MaxLng - 1), hi \in 0 .. (MaxLng - 1) :
              features[j].geometry = PolygonGeom(CellRing(lo, hi))

C3_RejectionClearsSession ==
    alert \in RejectAlerts =>
        /\ ~isDrawing
        /\ currentShape = NoShape
        /\ startPoint = Null
        /\ polygonPoints = <<>>
        /\ mode # NoMode

\* ----------------------------------------------------------------------- C4
\* The count the click handler of a mode compares to the limit of the mode.
RelevantCount(type) ==
    IF type = "polygon" THEN CountPolygonType(features)
    ELSE CountOfType(features, type)

\* C4: a click in the Armed state with the relevant count at or above the
\* limit raises the limit alert and starts nothing: is-drawing stays false,
\* anchor, point list, provisional shape, layer group, mode and collection
\* are unchanged; a draw only ever starts below the limit, and a click in
\* the Armed state below the limit (after a removal, say) starts one.
C4_CapacityGate ==
    [][/\ (mode # NoMode /\ ~isDrawing /\ ClickStep) =>
             IF RelevantCount(mode) >= maxShapes[mode]
               THEN /\ alert' = MaxAlertOf(mode)
                    /\ ~isDrawing'
                    /\ mode' = mode
                    /\ UNCHANGED <<features, hookVars>>
               ELSE isDrawing' /\ currentShape' # NoShape
       /\ (~isDrawing /\ isDrawing') => RelevantCount(mode) < maxShapes[mode]]_vars

\* A click was refused with exactly max features of the mode committed.
C4_Witness ==
    /\ mode # NoMode
    /\ alert = MaxAlertOf(mode)
    /\ ~isDrawing
    /\ features # <<>>
    /\ RelevantCount(mode) = maxShapes[mode]

\* ----------------------------------------------------------------------- C5
\* C5: the start of a polygon is refused exactly when the number of
\* committed polygons, rectangles and circles together is >= the polygon
\* limit; the start of a rectangle, circle or line string exactly when the
\* number of committed features of that very type is >= its own limit.
C5_Buckets ==
    [][(mode # NoMode /\ ~isDrawing /\ ClickStep) =>
         LET n == IF mode = "polygon"
                    THEN Cardinality({k \in 1 .. Len(features) :
                            features[k].type \in {"polygon", "rectangle", "circle"}})
                    ELSE Cardinality({k \in 1 .. Len(features) : features[k].type = mode})
         IN  /\ (alert' = MaxAlertOf(mode)) <=> (n >= maxShapes[mode])
             /\ isDrawing' <=> (n < maxShapes[mode])]_vars

\* The start of a polygon was refused although fewer features of type
\* polygon than the polygon limit are committed.
C5_Witness ==
    /\ mode = "polygon"
    /\ alert = AlertMaxPolygons
    /\ CountOfType(features, "polygon") < maxShapes.polygon
    /\ \E k \in 1 .. Len(features) : features[k].type \in {"rectangle", "circle"}

\* ----------------------------------------------------------------------- C6
\* C6: finishing a line string of 2 points or more appends a linestring
\* feature whose path is exactly the accumulated points, whatever is
\* committed; and the existing geometries a polygon-type candidate is
\* checked and trimmed against are exactly those of the committed
\* polygon-type features, never one of a line string.
C6_LineStringsExempt ==
    /\ [][(mode = "linestring" /\ isDrawing /\ Len(polygonPoints) >= 2
             /\ handleMapDoubleClick) =>
            /\ Len(features') = Len(features) + 1
            /\ SubSeq(features', 1, Len(features)) = features
            /\ features'[Len(features')].type = "linestring"
            /\ features'[Len(features')].geometry =
                 [type |-> "LineString",
                  coordinates |-> [k \in 1 .. Len(polygonPoints) |->
                                     <<polygonPoints[k].lng, polygonPoints[k].lat>>]]]_vars
    /\ [](LET existing == existingPolygonGeometries(features)
          IN  /\ Len(existing) = Cardinality(PolyIdx)
              /\ \A k \in 1 .. Len(existing) :
                    /\ existing[k].type # "LineString"
                    /\ \E i \in PolyIdx : existing[k] = features[i].geometry)

\* A line string from corner to corner was committed after a polygon-type
\* feature with area that it crosses.
C6_Witness ==
    \E i \in PolyIdx, j \in 1 .. Len(features) :
        /\ i < j
        /\ Cells(RingOf(features[i].geometry)) = 0 .. (MaxLng - 1)
        /\ features[j].type = "linestring"
        /\ features[j].geometry.coordinates[1] # features[j].geometry.coordinates[2]

\* ----------------------------------------------------------------------- C7
\* C7: a double click while drawing a polygon of fewer than 3 points, or a
\* line string of fewer than 2, commits nothing and keeps is-drawing, the
\* points and the provisional shape; a later click still appends its point.
C7_TooFewPoints ==
    [][/\ (isDrawing /\ handleMapDoubleClick
            /\ \/ mode = "polygon" /\ Len(polygonPoints) < 3
               \/ mode = "linestring" /\ Len(polygonPoints) < 2) =>
             /\ alert' = IF mode = "polygon" THEN AlertPolygonPoints ELSE AlertLinePoints
             /\ isDrawing'
             /\ UNCHANGED <<features, polygonPoints, currentShape, drawingLayer>>
       /\ (isDrawing /\ mode \in {"polygon", "linestring"} /\ ClickStep) =>
             /\ isDrawing'
             /\ \E ll \in LatLngs : polygonPoints' = Append(polygonPoints, ll)
             /\ currentShape'.latlngs = polygonPoints']_vars

\* A polygon session of 2 points whose finish was just refused.
C7_Witness ==
    /\ mode = "polygon"
    /\ alert = AlertPolygonPoints
    /\ isDrawing
    /\ Len(polygonPoints) = 2
    /\ currentShape # NoShape

\* ----------------------------------------------------------------------- C8
\* C8: no direct call of doPolygonsOverlap or doesPolygonEnclose ends in an
\* exception, whatever the geometries (malformed rings included) and
\* whatever the library throws.
C8_PredicatesNeverThrow ==
    probe.op \in {"doPolygonsOverlap", "doesPolygonEnclose"} => ~probe.result.threw

\* ----------------------------------------------------------------------- C9
\* C9: no direct call of trimPolygonOverlap ends in an exception, whatever
\* the candidate, the existing geometries and whatever the library throws.
C9_TrimNeverThrows ==
    probe.op = "trimPolygonOverlap" => ~probe.result.threw

\* ---------------------------------------------------------------------- C10
\* A geometry turf.polygon accepts.
WellFormed(g) == g.type = "Polygon" /\ ~turf_polygon(g.coordinates).threw

TrimOfNothing ==
    /\ probe.op = "trimPolygonOverlap"
    /\ probe.existingGeometries = <<>>
    /\ probe.fault = "none"
    /\ WellFormed(probe.newGeometry)

C12_CommittedShapes ==
    \A k \in 1 .. Len(features) :
        IF isPolygonType(features[k].type)
          THEN LET ring == RingOf(features[k].geometry)
               IN  /\ ring[1] = ring[Len(ring)]
                   /\ Cardinality({ring[i] : i \in 1 .. Len(ring)}) >= 3
          ELSE Len(features[k].geometry.coordinates) >= 2

\* ---------------------------------------------------------------------- C13
\* A click on an enabled tool button: the mode becomes another type, or
\* none when the button is the selected one.
ModeChange == \E t \in FeatureTypes : handleToolClick(t)

\* C13: a change of the drawing mode to another type or to none discards
\* the session in progress: the provisional shape is off the drawing layer
\* and forgotten, the anchor is unset, the point list empty and is-drawing
\* false; the feature collection and the capacity limits are unchanged.
C13_ModeChangeDiscards ==
    [][ModeChange =>
         /\ mode' # mode
         /\ currentShape' = NoShape
         /\ currentShape # NoShape => currentShape.id \notin drawingLayer'
         /\ startPoint' = Null
         /\ polygonPoints' = <<>>
         /\ ~isDrawing'
         /\ features' = features
         /\ maxShapes' = maxShapes]_vars

\* A polygon session with two points is active next to a committed feature
\* and the buttons of another type and of the selected type can be clicked.
C13_Witness ==
    /\ mode = "polygon"
    /\ isDrawing
    /\ Len(polygonPoints) = 2
    /\ currentShape # NoShape /\ currentShape.id \in drawingLayer
    /\ features # <<>>
    /\ ENABLED handleToolClick("circle")
    /\ ENABLED handleToolClick("polygon")

\* ---------------------------------------------------------------------- C14
\* C14: a change of a capacity limit sets the limit of that type and
\* nothing else: the feature collection (features in excess of the new
\* limit included), the limits of the other types, the mode, is-drawing and
\* the session are unchanged; and every later click in the Armed state is
\* refused exactly when the relevant count has reached the limit in force.
C14_LimitChange ==
    [][/\ \A t \in FeatureTypes, m \in 1 .. MaxLimit :
             setMaxShapes(t, m) =>
                 /\ maxShapes'[t] = m
                 /\ \A u \in FeatureTypes \ {t} : maxShapes'[u] = maxShapes[u]
                 /\ UNCHANGED <<features, mode, isDrawing, hookVars>>
       /\ (mode # NoMode /\ ~isDrawing /\ ClickStep) =>
             ((alert' = MaxAlertOf(mode)) <=> (RelevantCount(mode) >= maxShapes[mode]))]_vars

\* The limit of circles was lowered below the number of committed circles,
\* which are all still there, and the next click in circle mode was refused
\* under the new limit while the other limits are the configured ones.
C14_Witness ==
    /\ mode = "circle"
    /\ maxShapes.circle < MAX_SHAPES_CONFIG.circle
    /\ CountOfType(features, "circle") > maxShapes.circle
    /\ alert = AlertMaxCircles
    /\ \A u \in FeatureTypes \ {"circle"} : maxShapes[u] = MAX_SHAPES_CONFIG[u]

\* ---------------------------------------------------------------------- C15
\* The value of the member key in a list of members.
MemberOf(members, key) ==
    LET i == CHOOSE j \in 1 .. Len(members) : members[j][1] = key
    IN  members[i][2]

HasMember(members, key) ==
    Cardinality({j \in 1 .. Len(members) : members[j][1] = key}) = 1

\* C15: the exported document has exactly one entry per committed feature,
\* in collection order; an entry carries the geometry of its feature and
\* properties with the id, the type and the colour of the feature; an
\* export leaves the store as it is, and the document is a function of the
\* collection alone.
C15_Export ==
    /\ [](probe.op = "exportToGeoJSON" =>
            LET doc == probe.result
                fs  == probe.features
            IN  /\ doc.type = "FeatureCollection"
                /\ Len(doc.features) = Len(fs)
                /\ \A k \in 1 .. Len(fs) :
                      /\ doc.features[k].type = "Feature"
                      /\ doc.features[k].geometry = fs[k].geometry
                      /\ HasMember(doc.features[k].properties, "id")
                      /\ MemberOf(doc.features[k].properties, "id") = fs[k].id
                      /\ HasMember(doc.features[k].properties, "type")
                      /\ MemberOf(doc.features[k].properties, "type") = fs[k].type
                      /\ HasMember(doc.features[k].properties, "color")
                      /\ MemberOf(doc.features[k].properties, "color") = fs[k].properties.color
                /\ doc = exportToGeoJSON(fs))
    /\ [][handleExport => /\ UNCHANGED <<storeVars, hookVars>>
                          /\ features # <<>> => probe'.features = features]_vars

\* A store of two features of different types and geometries was exported
\* after its first feature had been removed and is unchanged since.
C15_Witness ==
    /\ probe.op = "exportToGeoJSON"
    /\ Len(probe.features) = 1
    /\ probe.features[1].id = 2
    /\ probe.features[1].type = "linestring"
    /\ features = probe.features

\* ---------------------------------------------------------------------- C16
\* C16: while a polygon or a line string is being drawn, a pointer move to
\* any position can take place and sets the provisional preview to the
\* accumulated points followed by that position, the accumulated points
\* staying as they are.
C16_PreviewFollowsPointer ==
    (mode \in {"polygon", "linestring"} /\ isDrawing /\ currentShape # NoShape) =>
        \A ll \in LatLngs :
            ENABLED (/\ handleMapMouseMove(ll)
                     /\ currentShape'.latlngs = Append(polygonPoints, ll)
                     /\ polygonPoints' = polygonPoints)

\* ---------------------------------------------------------------------- C17
\* The enclosure tests in the order in which they are made: feature by
\* feature in collection order, "would be enclosed" before "would enclose
\* existing".
EnclosureTests ==
    [t \in 1 .. (2 * Len(features)) |->
        LET k == (t + 1) \div 2
        IN  IF ~isPolygonType(features[k].type) THEN "none"
            ELSE IF t % 2 = 1
              THEN (IF EnclosedBy(k) THEN AlertEnclosed ELSE "none")
              ELSE (IF Encloses(k) THEN AlertEncloses ELSE "none")]

OverlapsSome ==
    \E k \in PolyIdx : doPolygonsOverlap(Candidate, features[k].geometry, "none") = Ok(TRUE)

\* C17: when any enclosure test on any committed polygon-type feature is
\* positive, the finalized candidate is rejected with the reason of the
\* first positive test and neither trimmed nor committed, also when it
\* overlaps an earlier feature of the collection.
C17_EnclosureBeforeOverlap ==
    [][(FinalizeStep /\ \E t \in DOMAIN EnclosureTests : EnclosureTests[t] # "none") =>
         LET first == CHOOSE t \in DOMAIN EnclosureTests :
                         /\ EnclosureTests[t] # "none"
                         /\ \A u \in 1 .. (t - 1) : EnclosureTests[u] = "none"
         IN  /\ alert' = EnclosureTests[first]
             /\ alert' # AlertTrim
             /\ features' = features]_vars

\* A rectangle was rejected as enclosing the second feature of the store
\* although it overlaps the first one, with which it is in no enclosure.
C17_Witness ==
    /\ Len(features) = 2
    /\ PolyIdx = {1, 2}
    /\ currentShape # NoShape
    /\ alert = AlertEncloses
    /\ doPolygonsOverlap(Candidate, features[1].geometry, "none") = Ok(TRUE)
    /\ ~EnclosedBy(1) /\ ~Encloses(1)
    /\ ~EnclosedBy(2) /\ Encloses(2)

\* ---------------------------------------------------------------------- C18
\* The area of the candidate and of the first j committed polygon-type
\* geometries, as sets of cells.
CandidateCells == Cells(RingOf(Candidate))
ExistingCells(j) ==
    UNION {Cells(RingOf(existingPolygonGeometries(features)[i])) : i \in 1 .. j}

\* Every subtraction of the trim leaves a single part.
SinglePartTrim ==
    \A j \in 1 .. Len(existingPolygonGeometries(features)) :
        Len(Runs(CandidateCells \ ExistingCells(j))) = 1

\* C18: when a finalized polygon-type candidate that overlaps a committed
\* polygon-type feature is committed, the stored geometry is what
\* trimPolygonOverlap returns: its area lies within the candidate, has
\* nothing in common with any committed polygon-type feature and, when
\* every subtraction leaves a single part, is the candidate minus the union
\* of the existing polygons.
C18_StoredIsTrimmed ==
    [][(FinalizeStep /\ OverlapsSome /\ Len(features') = Len(features) + 1) =>
         LET stored == features'[Len(features')].geometry
             all    == Len(existingPolygonGeometries(features))
         IN  /\ SubSeq(features', 1, Len(features)) = features
             /\ Ok(stored) = trimPolygonOverlap(Candidate,
                                 existingPolygonGeometries(features), "none")
             /\ Cells(RingOf(stored)) # {}
             /\ Cells(RingOf(stored)) \subseteq CandidateCells
             /\ Cells(RingOf(stored)) \cap ExistingCells(all) = {}
             /\ SinglePartTrim =>
                   Cells(RingOf(stored)) = CandidateCells \ ExistingCells(all)]_vars

\* The rectangle anchored at longitude 1 and spanning two cells was drawn
\* over the rectangle of cells 0 and 1 and is stored as cell 2 alone, the
\* half of it that the existing rectangle does not cover.
C18_Witness ==
    /\ Len(features) = 2
    /\ currentShape = NoShape
    /\ startPoint # Null /\ startPoint.lng = 1
    /\ features[1].geometry = PolygonGeom(CellRing(0, 1))
    /\ features[2].type = "rectangle"
    /\ features[2].geometry = PolygonGeom(CellRing(2, 2))

\* ---------------------------------------------------------------------- C19
\* The cells of the k-th ring of a list of rings.
PartCells(parts, k) == Cells(parts[k])

\* The index of the largest part, the first one among equals.
LargestPart(parts) ==
    CHOOSE i \in 1 .. Len(parts) :
        /\ \A j \in 1 .. Len(parts) :
              Cardinality(PartCells(parts, j)) <= Cardinality(PartCells(parts, i))
        /\ \A j \in 1 .. (i - 1) :
              Cardinality(PartCells(parts, j)) < Cardinality(PartCells(parts, i))

\* A direct call of trimPolygonOverlap without library fault in which the
\* first existing polygon cuts the candidate into several parts.
SplitByFirst ==
    /\ probe.op = "trimPolygonOverlap"
    /\ probe.fault = "none"
    /\ WellFormed(probe.newGeometry)
    /\ Len(probe.existingGeometries) >= 1
    /\ \A k \in 1 .. Len(probe.existingGeometries) :
          \/ WellFormed(probe.existingGeometries[k])
          \/ probe.existingGeometries[k].type = "LineString"
    /\ WellFormed(probe.existingGeometries[1])
    /\ Len(Runs(Cells(RingOf(probe.newGeometry))
                  \ Cells(RingOf(probe.existingGeometries[1])))) >= 2

\* The parts the first subtraction leaves, in the order of the library.
FirstParts ==
    Runs(Cells(RingOf(probe.newGeometry)) \ Cells(RingOf(probe.existingGeometries[1])))

\* The cells of the current polygon of the call when the loop reaches the
\* k-th existing geometry, the largest part being selected after every
\* cut; empty once a subtraction has left nothing.  A line string is passed
\* over.
RECURSIVE ProbeCurrent(_)
ProbeCurrent(k) ==
    IF k = 1 THEN Cells(RingOf(probe.newGeometry))
    ELSE LET S == ProbeCurrent(k - 1)
             g == probe.existingGeometries[k - 1]
             E == IF g.type = "Polygon" THEN Cells(RingOf(g)) ELSE {}
         IN  IF S \cap E = {} THEN S
             ELSE IF S \ E = {} THEN {}
             ELSE Cells(Runs(S \ E)[LargestPart(Runs(S \ E))])

\* C19: when the subtraction of an existing polygon leaves several parts,
\* the trim goes on with the part of largest area, the first one in the
\* order of the library among parts of equal area, and drops the others;
\* a later existing polygon that does not meet the selected part leaves it
\* as it is, also when it meets the candidate, and one that meets it is
\* subtracted from the selected part alone.
C19_LargestPart ==
    SplitByFirst =>
        LET selected == FirstParts[LargestPart(FirstParts)]
            last     == ProbeCurrent(Len(probe.existingGeometries) + 1)
        IN  /\ ProbeCurrent(2) = Cells(selected)
            /\ Len(probe.existingGeometries) = 1 =>
                  probe.result = Ok(PolygonGeom(selected))
            /\ IF last = {} THEN probe.result = Ok(Null)
               ELSE /\ ~probe.result.threw
                    /\ probe.result.value # Null
                    /\ Cells(RingOf(probe.result.value)) = last
                    /\ last \subseteq Cells(selected)

\* The candidate of cells 0 to 3 was trimmed against cell 1, which leaves
\* cell 0 and cells 2 and 3, and then against cell 0, which meets the
\* candidate and not the selected part: the result is cells 2 and 3.
C19_Witness ==
    /\ SplitByFirst
    /\ Len(probe.existingGeometries) = 2
    /\ probe.newGeometry = PolygonGeom(CellRing(0, 3))
    /\ probe.existingGeometries[1] = PolygonGeom(CellRing(1, 1))
    /\ probe.existingGeometries[2] = PolygonGeom(CellRing(0, 0))
    /\ probe.result = Ok(PolygonGeom(CellRing(2, 3)))

\* ---------------------------------------------------------------------- C20
\* The cells of the current polygon of the trim of the candidate when the
\* loop reaches the k-th committed polygon-type geometry; empty once a
\* subtraction has left nothing.
RECURSIVE CurrentBefore(_)
CurrentBefore(k) ==
    IF k = 1 THEN CandidateCells
    ELSE LET S == CurrentBefore(k - 1)
             E == Cells(RingOf(existingPolygonGeometries(features)[k - 1]))
         IN  IF S \cap E = {} THEN S
             ELSE IF S \ E = {} THEN {}
             ELSE Cells(Runs(S \ E)[LargestPart(Runs(S \ E))])

\* The subtraction of the k-th existing polygon leaves nothing of the
\* current polygon, which it overlaps.
ConsumedAt(k) ==
    /\ CurrentBefore(k) # {}
    /\ CurrentBefore(k) \subseteq Cells(RingOf(existingPolygonGeometries(features)[k]))

MoveStep == \E ll \in LatLngs : handleMapMouseMove(ll)

\* C21: in circle or rectangle mode a click while not drawing, the count
\* being below the limit, records the clicked point as anchor, puts one new
\* provisional shape of the mode on the drawing layer and sets is-drawing;
\* a pointer move while drawing changes the provisional shape and nothing
\* else; the next click while drawing leaves is-drawing false, whether the
\* shape is committed or rejected, and commits at most one feature.
C21_TwoClickShapes ==
    [][/\ (mode \in {"circle", "rectangle"} /\ ~isDrawing /\ ClickStep
             /\ RelevantCount(mode) < maxShapes[mode]) =>
             /\ startPoint' \in LatLngs
             /\ isDrawing'
             /\ currentShape' # NoShape
             /\ currentShape'.kind = IF mode = "circle" THEN "Circle" ELSE "Rectangle"
             /\ currentShape'.id \notin drawingLayer
             /\ drawingLayer' = drawingLayer \cup {currentShape'.id}
             /\ IF mode = "circle"
                  THEN currentShape'.latlng = startPoint' /\ currentShape'.radius = 0
                  ELSE currentShape'.bounds =
                         [south |-> startPoint'.lat, west |-> startPoint'.lng,
                          north |-> startPoint'.lat, east |-> startPoint'.lng]
             /\ UNCHANGED <<features, mode, maxShapes, polygonPoints>>
       /\ (mode \in {"circle", "rectangle"} /\ isDrawing /\ MoveStep) =>
             /\ UNCHANGED <<features, mode, isDrawing, maxShapes, drawingLayer,
                            startPoint, polygonPoints>>
             /\ currentShape'.id = currentShape.id
             /\ currentShape'.kind = currentShape.kind
       /\ (mode \in {"circle", "rectangle"} /\ isDrawing /\ ClickStep) =>
             /\ ~isDrawing'
             /\ \/ features' = features
                \/ /\ Len(features') = Len(features) + 1
                   /\ SubSeq(features', 1, Len(features)) = features
                   /\ features'[Len(features')].type = mode
             /\ UNCHANGED <<mode, maxShapes>>]_vars

\* The second click of a rectangle that the pointer had stretched over the
\* whole strip was rejected: is-drawing is false again and the collection
\* holds what it held.
C21_Witness ==
    /\ mode = "rectangle"
    /\ ~isDrawing
    /\ alert \in RejectAlerts
    /\ startPoint # Null
    /\ currentShape # NoShape
    /\ currentShape.bounds.east - currentShape.bounds.west = MaxLng
    /\ Len(features) = 1

\* ---------------------------------------------------------------------- C22
\* The accumulated points as GeoJSON positions, in click order.
ClickedPositions ==
    [k \in 1 .. Len(polygonPoints) |-> <<polygonPoints[k].lng, polygonPoints[k].lat>>]

\* C22: in polygon or linestring mode the first click, the count being
\* below the limit, makes the point list that one point, and every click
\* while drawing appends its point at the end; a pointer move never changes
\* the point list; a finish that commits stores, for a polygon that
\* overlaps no committed polygon-type feature, the ring of the accumulated
\* points in click order followed by the first point again, and for a line
\* string the path of the accumulated points in click order.
C22_ClickedPoints ==
    [][/\ (mode \in {"polygon", "linestring"} /\ ~isDrawing /\ ClickStep
             /\ RelevantCount(mode) < maxShapes[mode]) =>
             /\ isDrawing'
             /\ Len(polygonPoints') = 1
             /\ polygonPoints'[1] \in LatLngs
             /\ currentShape'.latlngs = polygonPoints'
       /\ (mode \in {"polygon", "linestring"} /\ isDrawing /\ ClickStep) =>
             /\ Len(polygonPoints') = Len(polygonPoints) + 1
             /\ SubSeq(polygonPoints', 1, Len(polygonPoints)) = polygonPoints
             /\ polygonPoints'[Len(polygonPoints')] \in LatLngs
       /\ MoveStep => polygonPoints' = polygonPoints
       /\ (handleMapDoubleClick /\ Len(features') = Len(features) + 1) =>
             LET stored == features'[Len(features')]
             IN  /\ stored.type = mode
                 /\ mode = "linestring" =>
                       stored.geometry = [type |-> "LineString",
                                          coordinates |-> ClickedPositions]
                 /\ (mode = "polygon" /\ ~OverlapsSome) =>
                       stored.geometry =
                           [type |-> "Polygon",
                            coordinates |-> <<ClickedPositions \o <<ClickedPositions[1]>>>>]]_vars

\* A polygon of three clicks, the first two on different corners, is
\* committed with a ring of four positions that ends on the first one.
C22_Witness ==
    \E k \in 1 .. Len(features) :
        /\ features[k].type = "polygon"
        /\ Len(RingOf(features[k].geometry)) = 4
        /\ RingOf(features[k].geometry)[1] = <<MaxLng, 1>>
        /\ RingOf(features[k].geometry)[2] = <<0, 0>>
        /\ RingOf(features[k].geometry)[4] = <<MaxLng, 1>>

\* ---------------------------------------------------------------------- C23
\* The default colour of a feature type.
DefaultColour(type) ==
    IF type = "polygon" THEN "#3b82f6"
    ELSE IF type = "rectangle" THEN "#10b981"
    ELSE IF type = "circle" THEN "#f59e0b"
    ELSE "#ef4444"

\* C23: a click or a double click either leaves the collection as it is or
\* appends exactly one feature at its end, of the type of the session, with
\* the default colour of that type and an id no committed feature has, all
\* committed features staying what and where they were, trimmed commits
\* included; the removal of a feature by its id takes that feature out and
\* keeps the others in their order.
C23_AppendOnly ==
    [][/\ (ClickStep \/ handleMapDoubleClick) =>
             \/ features' = features
             \/ /\ Len(features') = Len(features) + 1
                /\ \A k \in 1 .. Len(features) : features'[k] = features[k]
                /\ features'[Len(features')].type = mode
                /\ features'[Len(features')].properties = [color |-> DefaultColour(mode)]
                /\ \A k \in 1 .. Len(features) :
                      features[k].id # features'[Len(features')].id
       /\ \A k \in 1 .. Len(features) :
             removeFeature(features[k].id) =>
                 /\ \A i \in 1 .. Len(features') : features'[i].id # features[k].id
                 /\ features' = SubSeq(features, 1, k - 1)
                                  \o SubSeq(features, k + 1, Len(features))]_vars

\* After the first feature was removed, a circle was committed behind the
\* feature that stayed, trimmed to a run of cells, under the id that had
\* become free.
C23_Witness ==
    /\ Len(features) = 2
    /\ features[1].id = 2
    /\ features[2].id = 1
    /\ features[2].type = "circle"
    /\ features[2].properties.color = "#f59e0b"
    /\ Cells(RingOf(features[1].geometry)) # {}
    /\ \E lo \in 0 .. (MaxLng - 1), hi \in 0 .. (MaxLng - 1) :
          features[2].geometry = PolygonGeom(CellRing(lo, hi))

\* ---------------------------------------------------------------------- C24
\* C24: a click or double click that commits a feature leaves the session
\* cleared: is-drawing false, no provisional shape, the point list empty,
\* the anchor unset, and the mode as it was.
C24_CommitClearsSession ==
    [][((ClickStep \/ handleMapDoubleClick) /\ Len(features') = Len(features) + 1) =>
         /\ ~isDrawing'
         /\ currentShape' = NoShape
         /\ polygonPoints' = <<>>
         /\ startPoint' = Null
         /\ mode' = mode]_vars

\* ---------------------------------------------------------------------- C25
\* The alerts of a rejected commit and of a refused finish.
RecoverAlerts == RejectAlerts \cup {AlertPolygonPoints, AlertLinePoints}

\* C25: a click or double click that ends in a rejection or a refusal
\* leaves the mode selected and the collection as it was; and in the state
\* after it a click on any position, the count being below the limit, goes
\* on with the session (after a refused finish) or starts a session that is
\* what a first click makes it: a new provisional shape, is-drawing true,
\* the anchor or the point list set from that click alone.
C25_Recoverable ==
    /\ [][((ClickStep \/ handleMapDoubleClick) /\ alert' \in RecoverAlerts) =>
             /\ features' = features
             /\ mode' = mode
             /\ mode # NoMode]_vars
    /\ [](alert \in RecoverAlerts =>
            /\ mode # NoMode
            /\ IF isDrawing
                 THEN \A ll \in LatLngs :
                        ENABLED (/\ ClickStep
                                 /\ isDrawing'
                                 /\ polygonPoints' = Append(polygonPoints, ll)
                                 /\ features' = features)
                 ELSE (RelevantCount(mode) < maxShapes[mode] /\ RoomToStart) =>
                        \A ll \in LatLngs :
                          ENABLED (/\ ClickStep
                                   /\ isDrawing'
                                   /\ currentShape' # NoShape
                                   /\ currentShape'.id \notin drawingLayer
                                   /\ mode \in {"circle", "rectangle"} =>
                                         startPoint' = ll /\ polygonPoints' = <<>>
                                   /\ mode \in {"polygon", "linestring"} =>
                                         polygonPoints' = <<ll>>
                                   /\ features' = features))

\* A circle was committed from a session that a click started after an
\* earlier circle had been rejected: the rejected shape is still on the
\* drawing layer, the collection holds the feature that caused the
\* rejection and the circle committed after it.
C25_Witness ==
    /\ mode = "circle"
    /\ ~isDrawing
    /\ alert = "none"
    /\ currentShape = NoShape
    /\ drawingLayer # {}
    /\ Len(features) = 2
    /\ features[1].type = "circle"
    /\ features[2].type = "circle"
    /\ Cells(RingOf(features[2].geometry)) # {}

CountsWithin == \A t \in FeatureTypes : CountOfType(features, t) <= maxShapes[t]

\* CountsWithin, and a session in progress was begun below the limit of its
\* mode and so may still commit one feature.
CapacityInv ==
    /\ CountsWithin
    /\ (isDrawing /\ mode # NoMode) => RelevantCount(mode) < maxShapes[mode]

\* C27: as long as no capacity limit is changed, the number of committed
\* features of each type stays at or below the limit of that type: the
\* initial state has the configured limits and satisfies CapacityInv, and
\* every step that leaves the limits as they are preserves CapacityInv,
\* which contains the bound on the counts.
C27_WithinLimits ==
    /\ maxShapes = MAX_SHAPES_CONFIG /\ CapacityInv
    /\ [][(maxShapes' = maxShapes /\ CapacityInv) => CapacityInv']_vars

\* The circle that fills the limit of circles in force was committed, and
\* with the limit unchanged the next click in circle mode was refused.
C27_Witness ==
    /\ mode = "circle"
    /\ CapacityInv
    /\ CountOfType(features, "circle") = maxShapes.circle
    /\ features[Len(features)].type = "circle"
    /\ currentShape = NoShape
    /\ startPoint # Null
    /\ alert = AlertMaxCircles

\* ---------------------------------------------------------------------- C28
\* C28: in every reachable state the drawing layer holds at most one
\* provisional shape, and none when is-drawing is false; a step that starts
\* a draw leaves exactly the shape it creates on the layer.
C28_OneProvisionalShape ==
    /\ [](Cardinality(drawingLayer) <= 1)
    /\ [](~isDrawing => drawingLayer = {})
    /\ [][(~isDrawing /\ isDrawing') =>
             /\ currentShape' # NoShape
             /\ drawingLayer' = {currentShape'.id}]_vars

====
